---- MODULE Spec2Model ----
(***************************************************************************)
(* Model of side-effects-linter.js: the per-line scan of analyzeFile (the  *)
(* function/class block tracker, the ignore rules, the side-effect rules   *)
(* and explainSideEffect) and the aggregation of the findings in main.     *)
(*                                                                         *)
(* Lines are strings.  The regular expressions of the source are written   *)
(* as syntax trees and decided by one matcher (Ends), which computes the   *)
(* set of positions a match can end at, so RegExp.prototype.test is        *)
(* modelled by what it does on the characters of the line.                 *)
(***************************************************************************)
EXTENDS Integers, Sequences, FiniteSets, TLC

(***************************************************************************)
(* Bounds of the model.                                                    *)
(***************************************************************************)
\* longest file of the single-file specification, in lines
MaxLines == 4
\* longest file of the multi-file specification, in lines
MaxMultiLines == 2
\* most calls of analyzeFile in one run of main (multi-file specification)
MaxScans == 2

(***************************************************************************)
(* Characters and character classes of the regular expressions.            *)
(***************************************************************************)
Char(s, j) == SubSeq(s, j, j)

CharsOf(s) == {Char(s, j) : j \in 1..Len(s)}

LowerCase == "abcdefghijklmnopqrstuvwxyz"

UpperCase == "ABCDEFGHIJKLMNOPQRSTUVWXYZ"

\* [a-zA-Z]
Letters == CharsOf(LowerCase) \cup CharsOf(UpperCase)

\* [a-zA-Z0-9_], which is also \w
WordChars == Letters \cup CharsOf("0123456789_")

\* \s, as far as a line of a split file can hold it
SpaceChars == {" ", "\t", "\f", "\r"}

\* both cases of a character, for a literal under the i flag
BothCases(c) ==
    IF c \in Letters
    THEN LET j == CHOOSE n \in 1..26 : Char(LowerCase, n) = c \/ Char(UpperCase, n) = c
         IN {Char(LowerCase, j), Char(UpperCase, j)}
    ELSE {c}

(***************************************************************************)
(* Regular expressions as syntax trees.                                    *)
(***************************************************************************)
Chr(S) == [k |-> "chr", c |-> S]

AnyChar == [k |-> "any"]

Bol == [k |-> "bol"]

Eol == [k |-> "eol"]

WordB == [k |-> "wb"]

Cat(xs) == [k |-> "cat", xs |-> xs]

Alt(xs) == [k |-> "alt", xs |-> xs]

Star(x) == [k |-> "star", x |-> x]

Plus(x) == Cat(<<x, Star(x)>>)

Opt(x) == [k |-> "opt", x |-> x]

\* a literal string
Lit(str) == Cat([j \in 1..Len(str) |-> Chr({Char(str, j)})])

\* a literal string under the i flag
LitI(str) == Cat([j \in 1..Len(str) |-> Chr(BothCases(Char(str, j)))])

\* is position p of s (between character p and character p+1) a \b boundary
IsWordAt(s, j) == j >= 1 /\ j <= Len(s) /\ Char(s, j) \in WordChars

\* Ends(re, s, P): the positions at which a match of re that starts at a
\* position of P can end.  Positions are 0..Len(s).
RECURSIVE Ends(_, _, _)
Ends(re, s, P) ==
    CASE re.k = "chr" -> {p + 1 : p \in {q \in P : q < Len(s) /\ Char(s, q + 1) \in re.c}}
      [] re.k = "any" -> {p + 1 : p \in {q \in P : q < Len(s)}}
      [] re.k = "bol" -> P \cap {0}
      [] re.k = "eol" -> P \cap {Len(s)}
      [] re.k = "wb" -> {p \in P : IsWordAt(s, p) # IsWordAt(s, p + 1)}
      [] re.k = "cat" -> IF re.xs = <<>>
                         THEN P
                         ELSE Ends(Cat(Tail(re.xs)), s, Ends(Head(re.xs), s, P))
      [] re.k = "alt" -> UNION {Ends(re.xs[j], s, P) : j \in DOMAIN re.xs}
      [] re.k = "opt" -> P \cup Ends(re.x, s, P)
      [] re.k = "star" -> LET Q == P \cup Ends(re.x, s, P)
                          IN IF Q = P THEN P ELSE Ends(re, s, Q)

\* RegExp.prototype.test without the g flag: a match may start anywhere
Test(re, s) == Ends(re, s, 0..Len(s)) # {}

(***************************************************************************)
(* The rule sets (side-effects-linter.js lines 28-52) and the block opener *)
(* (line 81).                                                              *)
(***************************************************************************)
Spaces == Star(Chr(SpaceChars))

Spaces1 == Plus(Chr(SpaceChars))

GlobalAlias == Alt(<<Lit("window"), Lit("globalThis"), Lit("global")>>)

\* /\b(firebase|AWS|Azure|amplify|gapi|Stripe|Twilio)[\s.]*\w*\s*\(.*\)/i
SdkInitPattern ==
    Cat(<<WordB,
          Alt(<<LitI("firebase"), LitI("AWS"), LitI("Azure"), LitI("amplify"),
                LitI("gapi"), LitI("Stripe"), LitI("Twilio")>>),
          Star(Chr(SpaceChars \cup {"."})), Star(Chr(WordChars)), Spaces,
          Lit("("), Star(AnyChar), Lit(")")>>)

\* /(?:window|globalThis|global)\.[a-zA-Z0-9_]+\s*=/
GlobalAssignPattern ==
    Cat(<<GlobalAlias, Lit("."), Plus(Chr(WordChars)), Spaces, Lit("=")>>)

\* /(?:window|document)\.(addEventListener|on[a-zA-Z]+)\s*\(/
ListenerPattern ==
    Cat(<<Alt(<<Lit("window"), Lit("document")>>), Lit("."),
          Alt(<<Lit("addEventListener"), Cat(<<Lit("on"), Plus(Chr(Letters))>>)>>),
          Spaces, Lit("(")>>)

\* /^[ \t]*[a-zA-Z0-9_$.]+\s*\(.*\);?\s*$/
TopLevelCallPattern ==
    Cat(<<Bol, Star(Chr({" ", "\t"})), Plus(Chr(WordChars \cup {"$", "."})), Spaces,
          Lit("("), Star(AnyChar), Lit(")"), Opt(Lit(";")), Spaces, Eol>>)

\* /Object\.defineProperty\s*\(\s*window[ ,]/
DefinePropertyPattern ==
    Cat(<<Lit("Object.defineProperty"), Spaces, Lit("("), Spaces, Lit("window"),
          Chr({" ", ","})>>)

\* /(?:window|globalThis|global)\.[a-zA-Z0-9_]+\s*\./
GlobalMutationPattern ==
    Cat(<<GlobalAlias, Lit("."), Plus(Chr(WordChars)), Spaces, Lit(".")>>)

SIDE_EFFECT_PATTERNS ==
    <<SdkInitPattern, GlobalAssignPattern, ListenerPattern, TopLevelCallPattern,
      DefinePropertyPattern, GlobalMutationPattern>>

DeclKeyword ==
    Alt(<<Lit("function"), Lit("class"), Lit("const"), Lit("let"), Lit("var"),
          Lit("async")>>)

IGNORE_PATTERNS ==
    << \* /^export\s+(default\s+)?(function|class|const|let|var|async|{)/
       Cat(<<Bol, Lit("export"), Spaces1, Opt(Cat(<<Lit("default"), Spaces1>>)),
             Alt(<<DeclKeyword, Lit("{")>>)>>),
       \* /^(function|class|const|let|var|async)\s/
       Cat(<<Bol, DeclKeyword, Chr(SpaceChars)>>),
       \* /^\/\//
       Cat(<<Bol, Lit("//")>>),
       \* /^\s*\/\*/
       Cat(<<Bol, Spaces, Lit("/*")>>),
       \* /^\s*\*\//
       Cat(<<Bol, Spaces, Lit("*/")>>),
       \* /^\s*\*/
       Cat(<<Bol, Spaces, Lit("*")>>),
       \* /^\s*$/
       Cat(<<Bol, Spaces, Eol>>) >>

\* /^(export\s+)?(async\s+)?function\s|^(export\s+)?class\s/
BlockOpenerPattern ==
    Alt(<<Cat(<<Bol, Opt(Cat(<<Lit("export"), Spaces1>>)),
                Opt(Cat(<<Lit("async"), Spaces1>>)), Lit("function"), Chr(SpaceChars)>>),
          Cat(<<Bol, Opt(Cat(<<Lit("export"), Spaces1>>)), Lit("class"),
                Chr(SpaceChars)>>)>>)

\* /{/ and /}/
OpenBracePattern == Lit("{")

CloseBracePattern == Lit("}")

\* String.prototype.trim
RECURSIVE Trim(_)
Trim(s) ==
    IF s = "" THEN s
    ELSE IF Char(s, 1) \in SpaceChars THEN Trim(SubSeq(s, 2, Len(s)))
    ELSE IF Char(s, Len(s)) \in SpaceChars THEN Trim(SubSeq(s, 1, Len(s) - 1))
    ELSE s

(***************************************************************************)
(* The lines the files of the model are made of.                           *)
(***************************************************************************)
Corpus ==
    { "function init() {",
      "  window.myGlobal = true;",
      "}",
      "AWS.config.update({ region: \"us-east-1\" });",
      "doSomething();",
      "window.addEventListener('load', init);",
      "function stub() // }}",
      "Object.defineProperty(window, 'app', d);",
      "window.app.init();",
      "firebase.initializeApp(cfg);",
      "const app = firebase.initializeApp(cfg);",
      "  if (a) { if (b) {" }

\* the lines of the files of the multi-file specification
MultiCorpus ==
    { "function init() {",
      "doSomething();",
      "function stub() // }}" }

\* the files of at most n lines over the lines of C; split(/\r?\n/) never
\* returns an empty array
FileContents(C, n) == UNION {[1..m -> C] : m \in 1..n}

\* the non-empty lists of at most n of the paths of P
ScanOrders(P, n) == UNION {[1..m -> P] : m \in 1..n}

(***************************************************************************)
(* explainSideEffect (lines 107-121): its own copies of the six patterns,  *)
(* in the order of its if chain.                                           *)
(***************************************************************************)
ReasonSdkInit == "Service initialization at top level (e.g., SDK init)"

ReasonGlobalAssign == "Assignment to window/global/globalThis at top level"

ReasonListener == "Top-level event listener setup"

ReasonDefineProperty == "Defining property on window at top level"

ReasonGlobalMutation == "Direct mutation of window/global/globalThis property at top level"

ReasonTopLevelCall == "Function/method call at top level (not wrapped in function/class)"

ReasonFallback == "Possible side effect"

ExplainRules ==
    << \* line 108
       [re |-> Cat(<<WordB,
                     Alt(<<LitI("firebase"), LitI("AWS"), LitI("Azure"), LitI("amplify"),
                           LitI("gapi"), LitI("Stripe"), LitI("Twilio")>>),
                     Star(Chr(SpaceChars \cup {"."})), Star(Chr(WordChars)),
                     Star(Chr(SpaceChars)), Lit("("), Star(AnyChar), Lit(")")>>),
        reason |-> ReasonSdkInit],
       \* line 110
       [re |-> Cat(<<Alt(<<Lit("window"), Lit("globalThis"), Lit("global")>>), Lit("."),
                     Plus(Chr(WordChars)), Star(Chr(SpaceChars)), Lit("=")>>),
        reason |-> ReasonGlobalAssign],
       \* line 112
       [re |-> Cat(<<Alt(<<Lit("window"), Lit("document")>>), Lit("."),
                     Alt(<<Lit("addEventListener"),
                           Cat(<<Lit("on"), Plus(Chr(Letters))>>)>>),
                     Star(Chr(SpaceChars)), Lit("(")>>),
        reason |-> ReasonListener],
       \* line 114
       [re |-> Cat(<<Lit("Object.defineProperty"), Star(Chr(SpaceChars)), Lit("("),
                     Star(Chr(SpaceChars)), Lit("window"), Chr({" ", ","})>>),
        reason |-> ReasonDefineProperty],
       \* line 116
       [re |-> Cat(<<Alt(<<Lit("window"), Lit("globalThis"), Lit("global")>>), Lit("."),
                     Plus(Chr(WordChars)), Star(Chr(SpaceChars)), Lit(".")>>),
        reason |-> ReasonGlobalMutation],
       \* line 118
       [re |-> Cat(<<Bol, Star(Chr({" ", "\t"})), Plus(Chr(WordChars \cup {"$", "."})),
                     Star(Chr(SpaceChars)), Lit("("), Star(AnyChar), Lit(")"),
                     Opt(Lit(";")), Star(Chr(SpaceChars)), Eol>>),
        reason |-> ReasonTopLevelCall] >>

\* the reason of the first rule of rules, from rule n on, that matches
RECURSIVE FirstReason(_, _, _)
FirstReason(rules, n, line) ==
    IF n > Len(rules) THEN ReasonFallback
    ELSE IF Test(rules[n].re, line) THEN rules[n].reason
    ELSE FirstReason(rules, n + 1, line)

\* explainSideEffect with its if chain in the order of SIDE_EFFECT_PATTERNS
\* (the call rule fourth)
explainSideEffect_ListOrder(line) ==
    FirstReason(<<ExplainRules[1], ExplainRules[2], ExplainRules[3], ExplainRules[6],
                  ExplainRules[4], ExplainRules[5]>>, 1, line)

\* explainSideEffect without the if of line 118
explainSideEffect_NoCallRule(line) == FirstReason(SubSeq(ExplainRules, 1, 5), 1, line)

explainSideEffect(line) == FirstReason(ExplainRules, 1, line)

(***************************************************************************)
(* One iteration of the loop of analyzeFile (lines 76-103).                *)
(***************************************************************************)
\* line 81
IsBlockOpener(line) == Test(BlockOpenerPattern, Trim(line))

\* line 85
HasOpenBrace(line) == Test(OpenBracePattern, line)

\* line 86
HasCloseBrace(line) == Test(CloseBracePattern, line)

\* line 91
MatchesIgnore(line) == \E r \in DOMAIN IGNORE_PATTERNS : Test(IGNORE_PATTERNS[r], line)

\* lines 92-93
MatchesSideEffect(line) ==
    \E r \in DOMAIN SIDE_EFFECT_PATTERNS : Test(SIDE_EFFECT_PATTERNS[r], line)

\* The tests of lines 81-98 on each line of the corpus, evaluated once: the
\* loop reads the outcome of a test on a line here.
Verdicts ==
    [l \in Corpus |->
        [opener |-> IsBlockOpener(l),
         open |-> HasOpenBrace(l),
         close |-> HasCloseBrace(l),
         ignore |-> MatchesIgnore(l),
         effect |-> MatchesSideEffect(l),
         reason |-> explainSideEffect(l)]]

\* the tracker closing the block only below depth 0 (line 87 with <)
TrackScope_ClosesBelowZero(line, inF, depth) ==
    LET inside == inF \/ Verdicts[line].opener
        d1 == IF inside /\ Verdicts[line].open THEN depth + 1 ELSE depth
        d2 == IF inside /\ Verdicts[line].close THEN d1 - 1 ELSE d1
    IN [inside |-> inside,
        depth |-> d2,
        inF |-> IF inside /\ d2 < 0 THEN FALSE ELSE inside]

\* the tracker counting every brace of the line (lines 85-86 with match counts)
TrackScope_CountsBraces(line, inF, depth) ==
    LET inside == inF \/ Verdicts[line].opener
        opens == Cardinality({j \in 1..Len(line) : Char(line, j) = "{"})
        closes == Cardinality({j \in 1..Len(line) : Char(line, j) = "}"})
        d2 == IF inside THEN depth + opens - closes ELSE depth
    IN [inside |-> inside,
        depth |-> d2,
        inF |-> IF inside /\ d2 <= 0 THEN FALSE ELSE inside]

\* lines 81-87: the block tracker on one line.  inside is inFunctionOrClass
\* after the opener check, which decides the continue of line 88.
TrackScope(line, inF, depth) ==
    LET inside == inF \/ Verdicts[line].opener
        d1 == IF inside /\ Verdicts[line].open THEN depth + 1 ELSE depth
        d2 == IF inside /\ Verdicts[line].close THEN d1 - 1 ELSE d1
    IN [inside |-> inside,
        depth |-> d2,
        inF |-> IF inside /\ d2 <= 0 THEN FALSE ELSE inside]

\* the iteration without the continue of line 88
LineFindings_NoContinue(path, n, line, inside) ==
    IF Verdicts[line].ignore THEN <<>>
    ELSE IF Verdicts[line].effect
         THEN <<[file |-> path, line |-> n, code |-> line,
                 reason |-> Verdicts[line].reason]>>
         ELSE <<>>

\* the iteration without the ignore rules of line 91
LineFindings_NoIgnore(path, n, line, inside) ==
    IF inside THEN <<>>
    ELSE IF Verdicts[line].effect
         THEN <<[file |-> path, line |-> n, code |-> line,
                 reason |-> Verdicts[line].reason]>>
         ELSE <<>>

\* lines 84-102: what the iteration on line number n pushes to findings
LineFindings(path, n, line, inside) ==
    IF inside THEN <<>>
    ELSE IF Verdicts[line].ignore THEN <<>>
    ELSE IF Verdicts[line].effect
         THEN <<[file |-> path, line |-> n, code |-> line,
                 reason |-> Verdicts[line].reason]>>
         ELSE <<>>

(***************************************************************************)
(* State.                                                                  *)
(***************************************************************************)
VARIABLES
    disk,               \* path -> the lines of the file (readFileSync + split)
    files,              \* the paths main scans, in order (UTILS_DIRS x getAllFiles)
    pc,                 \* "main": between two files; "scan": in analyzeFile's loop
    fileIdx,            \* how many files main has handed to analyzeFile
    lines,              \* analyzeFile: lines
    i,                  \* analyzeFile: how many lines the loop has done
    inFunctionOrClass,  \* analyzeFile: inFunctionOrClass
    blockDepth,         \* analyzeFile: blockDepth
    findings,           \* analyzeFile: findings
    allFindings,        \* main: allFindings
    returned,           \* history: the value each call of analyzeFile returned
    scopeLog            \* history: per line of the current file, the tracker's
                        \* state before the line, after the opener check and after it

vars ==
    <<disk, files, pc, fileIdx, lines, i, inFunctionOrClass, blockDepth, findings,
      allFindings, returned, scopeLog>>

Paths == {"utils/a.js", "lib/b.js"}

InitScan ==
    /\ pc = "main"
    /\ fileIdx = 0
    /\ lines = <<>>
    /\ i = 0
    /\ inFunctionOrClass = FALSE
    /\ blockDepth = 0
    /\ findings = <<>>
    /\ allFindings = <<>>
    /\ returned = <<>>
    /\ scopeLog = <<>>

\* one file, of any lines of the corpus
Init ==
    /\ disk \in [{"utils/a.js"} -> FileContents(Corpus, MaxLines)]
    /\ files = <<"utils/a.js">>
    /\ InitScan

\* two files, scanned in any order, any of them more than once
InitMulti ==
    /\ disk \in [Paths -> FileContents(MultiCorpus, MaxMultiLines)]
    /\ files \in ScanOrders(Paths, MaxScans)
    /\ InitScan

(***************************************************************************)
(* Actions.                                                                *)
(***************************************************************************)
\* analyzeFile with inFunctionOrClass and blockDepth kept from the file before
\* (the two declared at module level instead of lines 72-73)
StartFile_KeepsScope ==
    /\ pc = "main"
    /\ fileIdx < Len(files)
    /\ fileIdx' = fileIdx + 1
    /\ lines' = disk[files[fileIdx + 1]]
    /\ i' = 0
    /\ findings' = <<>>
    /\ scopeLog' = <<>>
    /\ pc' = "scan"
    /\ UNCHANGED <<disk, files, allFindings, returned, inFunctionOrClass, blockDepth>>

\* main line 129 calls analyzeFile, which reads the file and sets its locals
\* (lines 71-74)
StartFile ==
    /\ pc = "main"
    /\ fileIdx < Len(files)
    /\ fileIdx' = fileIdx + 1
    /\ lines' = disk[files[fileIdx + 1]]
    /\ i' = 0
    /\ inFunctionOrClass' = FALSE
    /\ blockDepth' = 0
    /\ findings' = <<>>
    /\ scopeLog' = <<>>
    /\ pc' = "scan"
    /\ UNCHANGED <<disk, files, allFindings, returned>>

\* one iteration of the loop (lines 76-103)
ProcessLine ==
    /\ pc = "scan"
    /\ i < Len(lines)
    /\ LET line == lines[i + 1]
           t == TrackScope(line, inFunctionOrClass, blockDepth)
       IN /\ inFunctionOrClass' = t.inF
          /\ blockDepth' = t.depth
          /\ findings' = findings \o LineFindings(files[fileIdx], i + 1, line, t.inside)
          /\ scopeLog' = Append(scopeLog, [before |-> inFunctionOrClass,
                                           depthBefore |-> blockDepth,
                                           inside |-> t.inside,
                                           after |-> t.inF,
                                           depth |-> t.depth])
    /\ i' = i + 1
    /\ UNCHANGED <<disk, files, pc, fileIdx, lines, allFindings, returned>>

\* main putting the findings of a file in front (line 130 with the operands
\* of concat exchanged)
ReturnFindings_Prepends ==
    /\ pc = "scan"
    /\ i = Len(lines)
    /\ allFindings' = IF Len(findings) # 0 THEN findings \o allFindings ELSE allFindings
    /\ returned' = Append(returned, findings)
    /\ pc' = "main"
    /\ UNCHANGED <<disk, files, fileIdx, lines, i, inFunctionOrClass, blockDepth,
                   findings, scopeLog>>

\* analyzeFile returns (line 104) and main appends (line 130)
ReturnFindings ==
    /\ pc = "scan"
    /\ i = Len(lines)
    /\ allFindings' = IF Len(findings) # 0 THEN allFindings \o findings ELSE allFindings
    /\ returned' = Append(returned, findings)
    /\ pc' = "main"
    /\ UNCHANGED <<disk, files, fileIdx, lines, i, inFunctionOrClass, blockDepth,
                   findings, scopeLog>>

Next == StartFile \/ ProcessLine \/ ReturnFindings

Spec == Init /\ [][Next]_vars

SpecMulti == InitMulti /\ [][Next]_vars

(***************************************************************************)
(* Properties.                                                             *)
(***************************************************************************)
\* how often character c occurs in line l
CountChar(l, c) == Cardinality({j \in 1..Len(l) : Char(l, j) = c})

\* the braces of each line of the corpus, counted on its characters
Braces == [l \in Corpus |-> [open |-> CountChar(l, "{"), close |-> CountChar(l, "}")]]

\* the findings of the current file on line number n
FindingsAt(n) == {k \in DOMAIN findings : findings[k].line = n}

\* line number n of the current file was processed at module scope
AtModuleScope(n) == ~scopeLog[n].inside

RECURSIVE Flatten(_)
Flatten(seqs) == IF seqs = <<>> THEN <<>> ELSE Head(seqs) \o Flatten(Tail(seqs))

IsPrefix(a, b) == Len(a) <= Len(b) /\ SubSeq(b, 1, Len(a)) = a

\* a line that would be reported at module scope
Reportable(l) == Verdicts[l].effect /\ ~Verdicts[l].ignore

\* C1: a line processed while inFunctionOrClass is true after the opener
\* check produces no finding, whatever its text.
C1_InBlockLinesProduceNoFinding ==
    \A n \in 1..i : scopeLog[n].inside => FindingsAt(n) = {}

\* C1 witness: a scan in which the opener line, a line that would be
\* reported at module scope and the closing line were all processed in the
\* block.
C1_Witness ==
    \E o, n, c \in 1..i :
        /\ o < n /\ n < c
        /\ ~scopeLog[o].before /\ scopeLog[o].inside
        /\ scopeLog[n].inside /\ Reportable(lines[n])
        /\ scopeLog[c].inside /\ ~scopeLog[c].after
        /\ FindingsAt(n) = {}

\* per line of the corpus, whether an entry of IGNORE_PATTERNS matches it
MatchesIgnoreTable == [l \in Corpus |-> MatchesIgnore(l)]

\* C2: a module-scope line that matches an ignore rule produces no finding,
\* however many side-effect rules it matches.
C2_IgnoreRulesDominate ==
    \A n \in 1..i :
        AtModuleScope(n) /\ MatchesIgnoreTable[lines[n]] => FindingsAt(n) = {}

\* C2 witness: a module-scope line that matches an ignore rule and a
\* side-effect rule was processed.
C2_Witness ==
    \E n \in 1..i :
        /\ AtModuleScope(n)
        /\ MatchesIgnoreTable[lines[n]]
        /\ Verdicts[lines[n]].effect
        /\ FindingsAt(n) = {}

\* C3, as claimed: an opener line with '{' and no '}' met outside a block,
\* then lines without braces, then a line with '}': none of them produces a
\* finding, whatever came before the opener in the file.
C3_BodySkippedAnywhere ==
    \A o, c \in 1..i :
        ( /\ o < c
          /\ ~scopeLog[o].before
          /\ Verdicts[lines[o]].opener
          /\ Braces[lines[o]].open > 0 /\ Braces[lines[o]].close = 0
          /\ \A m \in (o + 1)..(c - 1) :
                Braces[lines[m]].open = 0 /\ Braces[lines[m]].close = 0
          /\ Braces[lines[c]].close > 0 )
        => \A n \in o..c : FindingsAt(n) = {}

AwsLine == "AWS.config.update({ region: \"us-east-1\" });"

\* C4, as claimed: the line AWS.config.update({ region: "us-east-1" }); at
\* module scope produces exactly one finding, with the service
\* initialization reason.
C4_AwsLineIsServiceInit ==
    \A n \in 1..i :
        AtModuleScope(n) /\ lines[n] = AwsLine
        => /\ Cardinality(FindingsAt(n)) = 1
           /\ \A k \in FindingsAt(n) : findings[k].reason = ReasonSdkInit

\* the priority the claim states, as indexes of SIDE_EFFECT_PATTERNS, and the
\* reason of each entry of SIDE_EFFECT_PATTERNS
ClaimedPriority == <<1, 2, 3, 5, 6, 4>>

ReasonOfPattern ==
    <<ReasonSdkInit, ReasonGlobalAssign, ReasonListener, ReasonTopLevelCall,
      ReasonDefineProperty, ReasonGlobalMutation>>

\* per line of the corpus, which entries of SIDE_EFFECT_PATTERNS match it
PatternHits ==
    [l \in Corpus |->
        [r \in DOMAIN SIDE_EFFECT_PATTERNS |-> Test(SIDE_EFFECT_PATTERNS[r], l)]]

\* per line of the corpus that matches a side-effect rule, the reason of the
\* first rule in the claimed priority that matches it
PriorityReason ==
    [l \in {x \in Corpus : \E r \in 1..6 : PatternHits[x][r]} |->
        LET hit(j) == PatternHits[l][ClaimedPriority[j]]
            first == CHOOSE j \in 1..6 : hit(j) /\ \A h \in 1..(j - 1) : ~hit(h)
        IN ReasonOfPattern[ClaimedPriority[first]]]

\* C5: a module-scope line that is not ignored and matches a side-effect
\* rule produces exactly one finding, whose reason is that of the first
\* matching rule in the order SDK initialization, global assignment, event
\* listener, defineProperty, global mutation, top-level call.
C5_ReasonFollowsPriority ==
    \A n \in 1..i :
        AtModuleScope(n) /\ Reportable(lines[n])
        => /\ Cardinality(FindingsAt(n)) = 1
           /\ \A k \in FindingsAt(n) : findings[k].reason = PriorityReason[lines[n]]

\* C5 witness: a reported line that matches the call rule and a rule that
\* sits after it in SIDE_EFFECT_PATTERNS, reported with the latter's reason.
C5_Witness ==
    \E k \in DOMAIN findings :
        /\ PatternHits[findings[k].code][4]
        /\ \/ /\ PatternHits[findings[k].code][5]
              /\ findings[k].reason = ReasonDefineProperty
           \/ /\ PatternHits[findings[k].code][6]
              /\ findings[k].reason = ReasonGlobalMutation

\* C6, state part: the aggregate is the findings of the scans in the order
\* of the scans; the findings of a scan carry its file, strictly increasing
\* line numbers, and the text of the line at that 1-based position.
GroupInOrder(fs, path) ==
    \A k \in DOMAIN fs :
        /\ fs[k].file = path
        /\ fs[k].line \in 1..Len(disk[path])
        /\ fs[k].code = disk[path][fs[k].line]
        /\ k > 1 => fs[k - 1].line < fs[k].line

C6_Ordered ==
    /\ allFindings = Flatten(returned)
    /\ \A s \in DOMAIN returned : GroupInOrder(returned[s], files[s])
    /\ pc = "scan" => GroupInOrder(findings, files[fileIdx])

\* C6: the findings of a file are contiguous, ordered by strictly increasing
\* 1-based line number, the groups are in the order of the files, and no
\* step reorders, drops or changes a finding of the aggregate.
C6_AggregateOrder == [](C6_Ordered) /\ [][IsPrefix(allFindings, allFindings')]_vars

\* C6 witness: two different files scanned, each with findings, one of them
\* with two.
C6_Witness ==
    /\ Len(returned) >= 2
    /\ files[1] # files[2]
    /\ Len(returned[1]) >= 2
    /\ Len(returned[2]) >= 1
    /\ Len(allFindings) = Len(returned[1]) + Len(returned[2])

\* a finding without its file
Anonymous(fs) == [k \in DOMAIN fs |-> [line |-> fs[k].line, code |-> fs[k].code,
                                      reason |-> fs[k].reason]]

RECURSIVE TotalLen(_)
TotalLen(seqs) == IF seqs = <<>> THEN 0 ELSE Len(Head(seqs)) + TotalLen(Tail(seqs))

\* C7: every scan starts from {inFunctionOrClass false, blockDepth 0}; two
\* scans of files with the same lines return the same findings (the same
\* sequence when it is the same file), whatever was scanned in between, and
\* the aggregate holds the findings of every scan.
C7_PerFileIsolation ==
    /\ pc = "scan" /\ i = 0 => ~inFunctionOrClass /\ blockDepth = 0
    /\ \A a, b \in DOMAIN returned :
          /\ disk[files[a]] = disk[files[b]]
             => Anonymous(returned[a]) = Anonymous(returned[b])
          /\ files[a] = files[b] => returned[a] = returned[b]
    /\ Len(allFindings) = TotalLen(returned)

\* C7 witness: the same file scanned twice, with findings, ending both times
\* inside an unclosed block, and both sequences in the aggregate.
C7_Witness ==
    /\ pc = "main"
    /\ Len(returned) = 2
    /\ files[1] = files[2]
    /\ returned[1] # <<>>
    /\ inFunctionOrClass /\ blockDepth >= 1
    /\ allFindings = returned[1] \o returned[2]

\* C8: after every line inFunctionOrClass implies blockDepth >= 1; an
\* in-block line that leaves blockDepth <= 0 leaves inFunctionOrClass false
\* and produces no finding.
C8_ScopeStateInvariant ==
    /\ inFunctionOrClass => blockDepth >= 1
    /\ \A n \in 1..i :
          /\ scopeLog[n].after => scopeLog[n].depth >= 1
          /\ scopeLog[n].inside /\ scopeLog[n].depth <= 0
             => ~scopeLog[n].after /\ FindingsAt(n) = {}

\* C8 witness: a block that stayed open over a line and was closed by a
\* later one.
C8_Witness ==
    \E m, n \in 1..i :
        /\ m < n
        /\ scopeLog[m].after /\ scopeLog[m].depth >= 1
        /\ scopeLog[n].before /\ scopeLog[n].depth <= 0 /\ ~scopeLog[n].after
        /\ ~inFunctionOrClass

\* C9: on an in-block line blockDepth rises by 1 if the line holds a '{' and
\* falls by 1 if it holds a '}', however many; a line outside a block leaves
\* it alone.
C9_DepthByPresence ==
    /\ i > 0 => blockDepth = scopeLog[i].depth
    /\ \A n \in 1..i :
          LET l == lines[n]
              up == IF scopeLog[n].inside /\ Braces[l].open > 0 THEN 1 ELSE 0
              down == IF scopeLog[n].inside /\ Braces[l].close > 0 THEN 1 ELSE 0
          IN /\ scopeLog[n].depth = scopeLog[n].depthBefore + up - down
             /\ scopeLog[n].depthBefore = IF n = 1 THEN 0 ELSE scopeLog[n - 1].depth

\* C9 witness: in one block a line with two '{' raised the depth by one, a
\* line with a '{' and a '}' left it alone, and a line outside a block that
\* holds braces left it alone.
C9_Witness ==
    \E a, b, c \in 1..i :
        /\ scopeLog[a].inside /\ Braces[lines[a]].open >= 2 /\ Braces[lines[a]].close = 0
        /\ scopeLog[a].depth = scopeLog[a].depthBefore + 1
        /\ scopeLog[b].inside /\ Braces[lines[b]].open >= 1 /\ Braces[lines[b]].close >= 1
        /\ scopeLog[b].depth = scopeLog[b].depthBefore
        /\ ~scopeLog[c].inside /\ Braces[lines[c]].open >= 1
        /\ scopeLog[c].depth = scopeLog[c].depthBefore

RuleReasons ==
    {ReasonSdkInit, ReasonGlobalAssign, ReasonListener, ReasonDefineProperty,
     ReasonGlobalMutation, ReasonTopLevelCall}

\* C10: every finding carries one of the six reasons of the rules, never the
\* fallback reason.
C10_FallbackUnreachable ==
    /\ \A k \in DOMAIN findings : findings[k].reason \in RuleReasons
    /\ \A k \in DOMAIN allFindings : allFindings[k].reason \in RuleReasons

\* the lines of the corpus that no rule of explainSideEffect before the last
\* matches
OnlyCallRuleLines ==
    {l \in Corpus : \A r \in 1..5 : ~Test(ExplainRules[r].re, l)}

\* C10 witness: a finding for a line that only the last rule of the if chain
\* of explainSideEffect matches.
C10_Witness ==
    \E k \in DOMAIN findings :
        /\ findings[k].code \in OnlyCallRuleLines
        /\ findings[k].reason = ReasonTopLevelCall

====
